---------------------------- MODULE Spec2Model ----------------------------
(***************************************************************************)
(* Model of src/server.js: the product routes, the sale-recording route    *)
(* POST /api/sales (one step per await), the incremental spreadsheet       *)
(* artifact exports/sales.xlsx, and the daily summary aggregation.         *)
(***************************************************************************)
EXTENDS Integers, Sequences, FiniteSets, TLC

(* ------------------------------ bounds -------------------------------- *)
\* largest quantity a request body carries
MaxQty == 2
\* number of PUT/DELETE product requests a behaviour issues
MaxEdits == 1
\* number of sales in the Sale collection the summary is computed over
MaxStored == 2

\* ObjectIds the Product collection hands out, in this order
ObjectIds == {1, 2}
\* lengths of the item list of a POST /api/sales body
ItemCounts == {0, 1, 2}
\* handlers of POST /api/sales; each serves one request
Slots == {"r1", "r2"}
SeqSlots == {"r1"}
Channels == <<"A", "B">>
ChannelSet == {Channels[i] : i \in 1..Len(Channels)}
Days == {1, 2}
\* the day new Date() gives while the model runs
Clock == {1}
Names == {"bolt"}
Skus == {"B-1"}

(* --------------------------- identifiers ------------------------------ *)
\* a reference that mongoose.Types.ObjectId.isValid rejects
InvalidId == 0
\* a body field that is not supplied (undefined)
Absent == -1
IsValidObjectId(id) == id # InvalidId

VARIABLES
    prods,      \* Product collection: id -> [name, sku, quantity]
    nextId,     \* ObjectIds handed out so far (never reused)
    sales,      \* Sale collection, in insertion order
    file,       \* exports/sales.xlsx: [exists, rows]
    pc,         \* per handler of POST /api/sales: its position
    body,       \* per handler: req.body
    idx,        \* per handler: loop index of the running for..of
    doc,        \* per handler: the Sale document built at line 122
    wb,         \* per handler: rows of the in-memory workbook
    res,        \* per handler: response sent
    out,        \* response of the last product/download request
    nreq,       \* POST /api/sales requests issued
    nedit,      \* PUT/DELETE requests issued
    summary,    \* response of the last GET /api/sales/summary/:date
    pre,        \* history: stores as they were when the running sale request arrived
    createdWith,\* history: quantity each product was created with
    overlapped  \* history: a sale request arrived while another was in progress

vars == <<prods, nextId, sales, file, pc, body, idx, doc, wb, res, out, nreq, nedit,
          summary,
          pre, createdWith, overlapped>>

(* ------------------------------ values -------------------------------- *)
Item == [productId : {InvalidId} \cup ObjectIds, quantity : -1..MaxQty]
ItemLists == UNION {[1..n -> Item] : n \in ItemCounts}
\* req.body of POST /api/sales; hasItems = FALSE is a body without items
SaleBodies ==
    [channel : ChannelSet, hasItems : {TRUE}, items : ItemLists,
     date : {Absent} \cup (Days \ Clock)]
    \cup [channel : {"A"}, hasItems : {FALSE}, items : {<< >>}, date : {Absent}]
\* bodies of the concurrent runs: valid references, positive quantities
RaceItem == [productId : ObjectIds, quantity : 1..MaxQty]
RaceBodies ==
    [channel : ChannelSet, hasItems : {TRUE}, date : {Absent},
     items : UNION {[1..n -> RaceItem] : n \in ItemCounts \ {0}}]

NoSale == [id |-> 0, channel |-> "", items |-> << >>, date |-> 0]
NoBody == [channel |-> "", hasItems |-> FALSE, items |-> << >>, date |-> Absent]
NoRes == [status |-> 0, error |-> "", sale |-> NoSale]
NoProduct == [name |-> "", sku |-> "", quantity |-> 0]
NoOut == [op |-> "", id |-> 0, quantity |-> 0, status |-> 0, isNull |-> TRUE, doc |-> NoProduct]
NoFile == [exists |-> FALSE, rows |-> << >>]
NoTotals == [totalOrders |-> 0, totalQuantity |-> 0]
NoSummary == [status |-> 0, date |-> 0, channels |-> << >>, overall |-> NoTotals]
Snapshot == [prods |-> prods, sales |-> sales, file |-> file]

Header == [kind |-> "header", date |-> <<"Date", 0>>, channel |-> "Channel", product |-> "Product",
           sku |-> "SKU", quantity |-> 0]
\* new Date(d).toLocaleDateString("en-GB"): the day as text
FormatDate(d) == <<"dd/mm/yyyy", d>>
Row(sale, channel, item) ==
    LET found == item.productId \in DOMAIN prods IN
    [kind |-> "row", date |-> FormatDate(sale.date), channel |-> channel,
     product |-> IF found THEN prods[item.productId].name ELSE "Unknown",
     sku |-> IF found THEN prods[item.productId].sku ELSE "-",
     quantity |-> item.quantity]

\* everything but the Sale collection, as the process starts
InitRest ==
    /\ prods = << >>
    /\ nextId = 0
    /\ file = NoFile
    /\ pc = [r \in Slots |-> "idle"]
    /\ body = [r \in Slots |-> NoBody]
    /\ idx = [r \in Slots |-> 0]
    /\ doc = [r \in Slots |-> NoSale]
    /\ wb = [r \in Slots |-> << >>]
    /\ res = [r \in Slots |-> NoRes]
    /\ out = NoOut
    /\ nreq = 0
    /\ nedit = 0
    /\ pre = Snapshot
    /\ createdWith = << >>
    /\ overlapped = FALSE
    /\ summary = NoSummary

Init == sales = << >> /\ InitRest

(* --------------------------- product routes --------------------------- *)
\* POST /api/products
CreateProduct(name, sku, quantity) ==
    LET id == nextId + 1
        p == [name |-> name, sku |-> sku,
              quantity |-> IF quantity = Absent THEN 0 ELSE quantity]
    IN  /\ nextId < Cardinality(ObjectIds)
        /\ nextId' = id
        /\ prods' = prods @@ (id :> p)
        /\ out' = [op |-> "create", id |-> id, quantity |-> quantity, status |-> 200,
                   isNull |-> FALSE, doc |-> p]
        /\ UNCHANGED <<sales, file, pc, body, idx, doc, wb, res, nreq, nedit, summary>>

\* A product route handed a reference that does not cast to an ObjectId: the
\* query rejects with a CastError and the async handler has no try/catch, so
\* no response is sent (status 0), or the framework's error handler answers 500.
CastError(op, id, quantity) ==
    /\ prods' = prods
    /\ \E st \in {0, 500} :
           out' = [op |-> op, id |-> id, quantity |-> quantity, status |-> st,
                   isNull |-> TRUE, doc |-> NoProduct]

\* faulty variant: $inc in place of $set
SetQuantityInc(id, quantity) == [prods EXCEPT ![id].quantity = @ + quantity]

\* findByIdAndUpdate(id, {$set: {quantity}}, {new: true})
SetQuantity(id, quantity) == [prods EXCEPT ![id].quantity = quantity]

\* PUT /api/products/:id
UpdateProduct(id, quantity) ==
    /\ nedit < MaxEdits
    /\ nedit' = nedit + 1
    /\ IF ~IsValidObjectId(id)
       THEN CastError("put", id, quantity)
       ELSE IF id \in DOMAIN prods
       THEN /\ prods' = SetQuantity(id, quantity)
            /\ out' = [op |-> "put", id |-> id, quantity |-> quantity, status |-> 200,
                       isNull |-> FALSE, doc |-> prods'[id]]
       ELSE /\ prods' = prods
            /\ out' = [op |-> "put", id |-> id, quantity |-> quantity, status |-> 200,
                       isNull |-> TRUE, doc |-> NoProduct]
    /\ UNCHANGED <<nextId, sales, file, pc, body, idx, doc, wb, res, nreq, summary>>

\* DELETE /api/products/:id
DeleteProduct(id) ==
    /\ nedit < MaxEdits
    /\ nedit' = nedit + 1
    /\ IF ~IsValidObjectId(id)
       THEN CastError("delete", id, 0)
       ELSE /\ prods' = [p \in DOMAIN prods \ {id} |-> prods[p]]
            /\ out' = [op |-> "delete", id |-> id, quantity |-> 0, status |-> 200,
                       isNull |-> FALSE, doc |-> NoProduct]
    /\ UNCHANGED <<nextId, sales, file, pc, body, idx, doc, wb, res, nreq, summary>>

\* GET /api/sales/download: the status it answers with; lines 160-167
DownloadStatus == IF file.exists THEN 200 ELSE 404

(* ------------------------ POST /api/sales ----------------------------- *)
Bad(r, msg) ==
    /\ pc' = [pc EXCEPT ![r] = "done"]
    /\ res' = [res EXCEPT ![r] = [status |-> 400, error |-> msg, sale |-> NoSale]]
    /\ idx' = [idx EXCEPT ![r] = 0]

\* the item the running for..of loop of handler r is at
Cur(r) == body[r].items[idx[r]]
\* end of a loop body: next item, or on to the step after the loop
Advance(r, after) ==
    IF idx[r] < Len(body[r].items)
    THEN /\ idx' = [idx EXCEPT ![r] = idx[r] + 1]
         /\ pc' = pc
    ELSE /\ idx' = [idx EXCEPT ![r] = 1]
         /\ pc' = [pc EXCEPT ![r] = after]

\* the request arrives; lines 97-101
StartSale(r, b) ==
    /\ pc[r] \in {"idle", "done"}
    /\ nreq' = nreq + 1
    /\ body' = [body EXCEPT ![r] = b]
    /\ doc' = [doc EXCEPT ![r] = NoSale]
    /\ wb' = [wb EXCEPT ![r] = << >>]
    /\ out' = NoOut    \* out keeps the latest product response only until the next request
    /\ IF ~b.hasItems \/ Len(b.items) = 0
       THEN Bad(r, "No items provided")
       ELSE /\ pc' = [pc EXCEPT ![r] = "validate"]
            /\ idx' = [idx EXCEPT ![r] = 1]
            /\ res' = [res EXCEPT ![r] = NoRes]
    /\ UNCHANGED <<prods, nextId, sales, file, nedit, summary>>

\* faulty variant: a missing product passes the check (product && product.quantity < ...)
InsufficientStockIfFound(item) ==
    /\ item.productId \in DOMAIN prods
    /\ prods[item.productId].quantity < item.quantity

\* one iteration of the validation loop; lines 104-112
InsufficientStock(item) ==
    \/ item.productId \notin DOMAIN prods
    \/ prods[item.productId].quantity < item.quantity

Validate(r) ==
    /\ pc[r] = "validate"
    /\ IF ~IsValidObjectId(Cur(r).productId)
       THEN Bad(r, "Invalid productId")
       ELSE IF InsufficientStock(Cur(r))
       THEN Bad(r, "Insufficient stock")
       ELSE Advance(r, "decrement") /\ res' = res
    /\ UNCHANGED <<prods, nextId, sales, file, body, doc, wb, out, nreq, nedit, summary>>

\* faulty variant: the increment applied with the wrong sign
IncWrongSign(id, n) ==
    IF id \in DOMAIN prods
    THEN [prods EXCEPT ![id].quantity = @ - n]
    ELSE prods

\* faulty variant: the quantity is kept from going below zero
IncClamped(id, n) ==
    IF id \in DOMAIN prods
    THEN [prods EXCEPT ![id].quantity = IF @ + n < 0 THEN 0 ELSE @ + n]
    ELSE prods

\* one iteration of the decrement loop; lines 115-119
Inc(id, n) ==
    IF id \in DOMAIN prods
    THEN [prods EXCEPT ![id].quantity = @ + n]
    ELSE prods

\* faulty variant: a handler waits while another is in the decrement loop
DecrementExclusive(r) ==
    /\ pc[r] = "decrement"
    /\ \A o \in Slots \ {r} : pc[o] # "decrement"
    /\ prods' = [prods EXCEPT ![Cur(r).productId].quantity = @ - Cur(r).quantity]
    /\ idx' = [idx EXCEPT ![r] = IF idx[r] < Len(body[r].items) THEN idx[r] + 1 ELSE 1]
    /\ pc' = [pc EXCEPT ![r] = IF idx[r] < Len(body[r].items) THEN "decrement" ELSE "save"]
    /\ UNCHANGED <<nextId, sales, file, body, doc, wb, res, out, nreq, nedit, summary>>

Decrement(r) ==
    /\ pc[r] = "decrement"
    /\ prods' = Inc(Cur(r).productId, -Cur(r).quantity)
    /\ Advance(r, "save")
    /\ UNCHANGED <<nextId, sales, file, body, doc, wb, res, out, nreq, nedit, summary>>

\* lines 122-127; now is the day new Date() gives
NewSale(b, now) ==
    [id |-> Len(sales) + 1, channel |-> b.channel, items |-> b.items,
     date |-> IF b.date # Absent THEN b.date ELSE now]

Save(r, now) ==
    /\ pc[r] = "save"
    /\ doc' = [doc EXCEPT ![r] = NewSale(body[r], now)]
    /\ sales' = Append(sales, doc'[r])
    /\ pc' = [pc EXCEPT ![r] = "open"]
    /\ UNCHANGED <<prods, nextId, file, body, idx, wb, res, out, nreq, nedit, summary>>

\* faulty variant: the workbook always starts empty, the existing file is not read
OpenWorkbookFresh(r) ==
    /\ pc[r] = "open"
    /\ wb' = [wb EXCEPT ![r] = <<Header>>]
    /\ pc' = [pc EXCEPT ![r] = "rows"]
    /\ UNCHANGED <<prods, nextId, sales, file, body, idx, doc, res, out, nreq, nedit, summary>>

\* lines 130-138: read the workbook if the file exists, add the header to an empty sheet
OpenWorkbook(r) ==
    LET sheet == IF file.exists THEN file.rows ELSE << >> IN
    /\ pc[r] = "open"
    /\ wb' = [wb EXCEPT ![r] = IF Len(sheet) = 0 THEN <<Header>> ELSE sheet]
    /\ pc' = [pc EXCEPT ![r] = "rows"]
    /\ UNCHANGED <<prods, nextId, sales, file, body, idx, doc, res, out, nreq, nedit, summary>>

\* one iteration of the row loop; lines 140-149
AddRow(r) ==
    /\ pc[r] = "rows"
    /\ wb' = [wb EXCEPT ![r] = Append(wb[r], Row(doc[r], body[r].channel, Cur(r)))]
    /\ Advance(r, "write")
    /\ UNCHANGED <<prods, nextId, sales, file, body, doc, res, out, nreq, nedit, summary>>

\* lines 151-152
WriteFile(r) ==
    /\ pc[r] = "write"
    /\ file' = [exists |-> TRUE, rows |-> wb[r]]
    /\ pc' = [pc EXCEPT ![r] = "done"]
    /\ res' = [res EXCEPT ![r] = [status |-> 200, error |-> "", sale |-> doc[r]]]
    /\ idx' = [idx EXCEPT ![r] = 0]
    /\ wb' = [wb EXCEPT ![r] = << >>]
    /\ UNCHANGED <<prods, nextId, sales, body, doc, out, nreq, nedit, summary>>

\* faulty variant: the catch block restores the stores to their state at arrival
ThrowsAndRollsBack(r) ==
    /\ pc[r] \in {"validate", "decrement", "save", "rows", "write"}
       \/ (pc[r] = "open" /\ file.exists)
    /\ pc' = [pc EXCEPT ![r] = "done"]
    /\ res' = [res EXCEPT ![r] = [status |-> 500, error |-> pc[r], sale |-> NoSale]]
    /\ idx' = [idx EXCEPT ![r] = 0]
    /\ wb' = [wb EXCEPT ![r] = << >>]
    /\ prods' = pre.prods
    /\ sales' = pre.sales
    /\ UNCHANGED <<nextId, file, body, doc, out, nreq, nedit, summary>>

\* an awaited store or file operation rejects; lines 153-156
Throws(r) ==
    /\ pc[r] \in {"validate", "decrement", "save", "rows", "write"}
       \/ (pc[r] = "open" /\ file.exists)
    /\ pc' = [pc EXCEPT ![r] = "done"]
    /\ res' = [res EXCEPT ![r] = [status |-> 500, error |-> pc[r], sale |-> NoSale]]
    /\ idx' = [idx EXCEPT ![r] = 0]
    /\ wb' = [wb EXCEPT ![r] = << >>]
    /\ UNCHANGED <<prods, nextId, sales, file, body, doc, out, nreq, nedit, summary>>

\* the steps of the handlers in S, each an action of its own
Steps(S) ==
    \E r \in S :
        \/ Validate(r) /\ UNCHANGED <<pre, createdWith, overlapped>>
        \/ Decrement(r) /\ UNCHANGED <<pre, createdWith, overlapped>>
        \/ \E now \in Clock : Save(r, now) /\ UNCHANGED <<pre, createdWith, overlapped>>
        \/ OpenWorkbook(r) /\ UNCHANGED <<pre, createdWith, overlapped>>
        \/ AddRow(r) /\ UNCHANGED <<pre, createdWith, overlapped>>
        \/ WriteFile(r) /\ UNCHANGED <<pre, createdWith, overlapped>>

(* -------------------- GET /api/sales/summary/:date -------------------- *)
RECURSIVE SumQuantity(_)
\* $sum over the quantity of a sequence of line items
SumQuantity(items) ==
    IF Len(items) = 0 THEN 0
    ELSE items[1].quantity + SumQuantity(Tail(items))

\* new Date(date) of a route parameter; only a day parses
IsNaN(date) == date \notin Days

\* $match: the sales dated from the start to the end of the day
Match(day) == SelectSeq(sales, LAMBDA s : s.date = day)

RECURSIVE Unwind(_)
\* $unwind "$items": one document per line item
Unwind(docs) ==
    IF Len(docs) = 0 THEN << >>
    ELSE [i \in 1..Len(docs[1].items) |->
             [channel |-> docs[1].channel, items |-> docs[1].items[i]]]
         \o Unwind(Tail(docs))

\* $group by channel over the unwound documents, $sort by _id ascending
\* (Channels lists the channel names in ascending order)
GroupByChannel(unwound) ==
    LET Of(c) == SelectSeq(unwound, LAMBDA u : u.channel = c)
        Group(c) == [id |-> c,
                     totalQuantity |-> SumQuantity([i \in 1..Len(Of(c)) |-> Of(c)[i].items]),
                     totalOrders |-> Len(Of(c))]
        present == SelectSeq(Channels, LAMBDA c : Len(Of(c)) > 0)
    IN  [i \in 1..Len(present) |-> Group(present[i])]

RECURSIVE SumOfSums(_)
\* $sum of {$sum: "$items.quantity"} over the matched documents
SumOfSums(docs) ==
    IF Len(docs) = 0 THEN 0
    ELSE SumQuantity(docs[1].items) + SumOfSums(Tail(docs))

\* $group with _id null, then overall[0] || {totalOrders: 0, totalQuantity: 0}
Overall(docs) ==
    IF Len(docs) = 0 THEN NoTotals
    ELSE [totalOrders |-> Len(docs), totalQuantity |-> SumOfSums(docs)]

Summary(date) ==
    /\ summary' =
          IF IsNaN(date)
          THEN [NoSummary EXCEPT !.status = 400, !.date = date]
          ELSE [status |-> 200, date |-> date,
                channels |-> GroupByChannel(Unwind(Match(date))),
                overall |-> Overall(Match(date))]
    /\ UNCHANGED <<prods, nextId, sales, file, pc, body, idx, doc, wb, res, out, nreq, nedit>>

(* --------------------------- specifications --------------------------- *)
Quiet == \A r \in Slots : pc[r] \in {"idle", "done"}
Idle == \A r \in Slots : pc[r] = "idle"
Ghosts == <<pre, createdWith, overlapped>>

\* Spec: product requests, then a sale request processed alone; no store or
\* file operation fails
Arrive ==
    \E r \in SeqSlots, b \in SaleBodies :
        /\ pc[r] = "idle"
        /\ StartSale(r, b)
        /\ pre' = Snapshot
        /\ UNCHANGED <<createdWith, overlapped>>
Create ==
    \E n \in Names, s \in Skus, q \in {Absent} \cup (0..MaxQty) :
        Idle /\ CreateProduct(n, s, q) /\ UNCHANGED Ghosts
Update ==
    \E id \in {InvalidId} \cup ObjectIds, q \in 0..MaxQty :
        Idle /\ UpdateProduct(id, q) /\ UNCHANGED Ghosts
Delete ==
    \E id \in {InvalidId} \cup ObjectIds : Idle /\ DeleteProduct(id) /\ UNCHANGED Ghosts
Run == Steps(SeqSlots)

Next == Arrive \/ Create \/ Update \/ Delete \/ Run
Spec == Init /\ [][Next]_vars

\* SpecFail: as Spec, and any awaited store or file operation may reject
Reject == \E r \in SeqSlots : Throws(r) /\ UNCHANGED Ghosts
NextFail == Next \/ Reject
SpecFail == Init /\ [][NextFail]_vars

\* SpecRace: every handler serves one request, taken in the order r1, r2; the
\* handlers interleave at their awaits; products are created before the sale
\* requests arrive, never updated or deleted; nothing fails
ArriveAny ==
    \E r \in Slots, b \in RaceBodies :
        /\ pc[r] = "idle"
        /\ r = "r2" => pc["r1"] # "idle"
        /\ StartSale(r, b)
        /\ overlapped' = (overlapped \/ ~Quiet)
        /\ UNCHANGED <<pre, createdWith>>
CreateAny ==
    \E n \in Names, s \in Skus, q \in 0..MaxQty :
        /\ Idle
        /\ CreateProduct(n, s, q)
        /\ createdWith' = createdWith @@ (nextId' :> prods'[nextId'].quantity)
        /\ UNCHANGED <<pre, overlapped>>
RunAny == Steps(Slots)

NextRace == ArriveAny \/ CreateAny \/ RunAny
SpecRace == Init /\ [][NextRace]_vars

\* SpecSummary: the summary route over a stored set of sales
StoredItem == [productId : {1}, quantity : 1..MaxQty]
StoredSale(i) ==
    [id : {i}, channel : ChannelSet, date : Days,
     items : UNION {[1..n -> StoredItem] : n \in ItemCounts \ {0}}]
StoredSales ==
    UNION {{q \in [1..n -> UNION {StoredSale(i) : i \in 1..n}] :
               \A i \in 1..n : q[i].id = i} : n \in 0..MaxStored}
InitSummary == sales \in StoredSales /\ InitRest
Summarise == \E date \in Days \cup {0} : Summary(date) /\ UNCHANGED Ghosts
NextSummary == Summarise
SpecSummary == InitSummary /\ [][NextSummary]_vars

(* ------------------------------ claims --------------------------------- *)
\* handler r has answered
JustDone(r) == pc[r] = "done"

\* the body is one that lines 99-112 reject against the products P
Rejectable(b, P) ==
    \/ ~b.hasItems
    \/ Len(b.items) = 0
    \/ \E i \in 1..Len(b.items) :
          \/ ~IsValidObjectId(b.items[i].productId)
          \/ b.items[i].productId \notin DOMAIN P
          \/ P[b.items[i].productId].quantity < b.items[i].quantity

RECURSIVE Requested(_, _)
\* the total quantity the line items ask of product p
Requested(items, p) ==
    IF Len(items) = 0 THEN 0
    ELSE (IF items[1].productId = p THEN items[1].quantity ELSE 0)
         + Requested(Tail(items), p)

\* P with the first k line items taken off
After(P, items, k) ==
    [p \in DOMAIN P |->
        [P[p] EXCEPT !.quantity = @ - Requested(SubSeq(items, 1, k), p)]]

AllPositive(items) == \A i \in 1..Len(items) : items[i].quantity > 0

\* C1: with requests processed one at a time, non-negative created and updated
\* quantities and positive line-item quantities, no product's quantity is
\* below zero once a sale request has been answered.
C1_StockNeverNegative ==
    \A r \in SeqSlots :
        (JustDone(r) /\ AllPositive(body[r].items))
            => \A p \in DOMAIN prods : prods[p].quantity >= 0

\* C2: a sale request with an absent or empty item list, or with a line item
\* whose reference is invalid, names a missing product or asks for more than
\* the product's quantity, is answered 400 and changes no product, no sale
\* record and not the spreadsheet file at any step of its handling.
C2_RejectedSaleChangesNothing ==
    \A r \in SeqSlots :
        (pc[r] # "idle" /\ Rejectable(body[r], pre.prods))
            => /\ Snapshot = pre
               /\ pc[r] = "done" => (res[r].status = 400 /\ res[r].sale = NoSale)

C2_Witness ==
    \E r \in SeqSlots :
        /\ JustDone(r) /\ res[r].status = 400
        /\ Len(body[r].items) = 2
        /\ ~Rejectable([body[r] EXCEPT !.items = SubSeq(@, 1, 1)], pre.prods)
        /\ body[r].items[1].quantity > 0
        /\ body[r].items[2].productId \in DOMAIN prods
        /\ Snapshot = pre

\* C3: a sale request processed alone whose every line item names an existing
\* product holding at least the quantity asked ends with every product lowered
\* by exactly the quantity asked of it (unreferenced products unchanged), one
\* new sale record with the submitted channel and line items, and that record
\* as the 200 response.
C3_ValidSaleExactEffect ==
    \A r \in SeqSlots :
        (JustDone(r) /\ ~Rejectable(body[r], pre.prods))
            => /\ res[r].status = 200
               /\ prods = After(pre.prods, body[r].items, Len(body[r].items))
               /\ Len(sales) = Len(pre.sales) + 1
               /\ SubSeq(sales, 1, Len(pre.sales)) = pre.sales
               /\ sales[Len(sales)].channel = body[r].channel
               /\ sales[Len(sales)].items = body[r].items
               /\ res[r].sale = sales[Len(sales)]
               /\ file.exists

C3_Witness ==
    \E r \in SeqSlots :
        /\ JustDone(r) /\ res[r].status = 200
        /\ DOMAIN prods = {1, 2}
        /\ Len(body[r].items) = 1
        /\ body[r].items[1] = [productId |-> 1, quantity |-> 1]
        /\ pre.prods[1].quantity = 2 /\ prods[1].quantity = 1
        /\ prods[2] = pre.prods[2]
        /\ Len(sales) = 1

\* C4: the summary of a parseable date has, over the sales of that day, one
\* entry per channel in ascending channel order with the channel's summed
\* line-item quantity and its number of sale documents, and an overall total
\* of the matching documents and their summed quantity (zeros when none).
C4_SummaryEqualsReference ==
    LET day == summary.date
        OfChannel(c) == SelectSeq(sales, LAMBDA s : s.date = day /\ s.channel = c)
        present == SelectSeq(Channels, LAMBDA c : Len(OfChannel(c)) > 0)
        OfDay == SelectSeq(sales, LAMBDA s : s.date = day)
    IN  summary.status = 200 =>
           /\ Len(summary.channels) = Len(present)
           /\ \A i \in 1..Len(present) :
                 /\ summary.channels[i].id = present[i]
                 /\ summary.channels[i].totalQuantity = SumOfSums(OfChannel(present[i]))
                 /\ summary.channels[i].totalOrders = Len(OfChannel(present[i]))
           /\ summary.overall.totalOrders = Len(OfDay)
           /\ summary.overall.totalQuantity = SumOfSums(OfDay)

\* C5: when an awaited operation fails after the decrement loop, the request
\* is answered 500, every decrement stays applied, and a sale that was
\* already saved stays in the Sale collection; a failure inside the decrement
\* loop leaves the decrements made so far applied.
C5_NoCompensation ==
    \A r \in SeqSlots :
        (JustDone(r) /\ res[r].error \in {"decrement", "save", "open", "rows", "write"})
            => /\ res[r].status = 500
               /\ res[r].error = "decrement" =>
                     /\ \E k \in 0..(Len(body[r].items) - 1) :
                            prods = After(pre.prods, body[r].items, k)
                     /\ sales = pre.sales
               /\ res[r].error # "decrement" =>
                     prods = After(pre.prods, body[r].items, Len(body[r].items))
               /\ res[r].error = "save" => sales = pre.sales
               /\ res[r].error \in {"open", "rows", "write"} =>
                     sales = Append(pre.sales, doc[r])

C5_Witness ==
    \E r \in SeqSlots :
        /\ JustDone(r) /\ res[r].status = 500 /\ res[r].error = "write"
        /\ \E p \in DOMAIN prods : prods[p].quantity < pre.prods[p].quantity
        /\ Len(sales) = Len(pre.sales) + 1
        /\ ~file.exists

\* C7: every sale record has at least one line item, every line item's
\* quantity is above zero, and a sale just recorded names only products that
\* existed with at least the quantity asked when its request arrived.
C7_SaleRecordInvariant ==
    /\ \A i \in 1..Len(sales) :
          /\ Len(sales[i].items) >= 1
          /\ \A j \in 1..Len(sales[i].items) : sales[i].items[j].quantity > 0
    /\ \A r \in SeqSlots :
          (JustDone(r) /\ res[r].status = 200) => ~Rejectable(body[r], pre.prods)

RECURSIVE Sold(_, _)
\* the total quantity of product p over the line items of the sale records
Sold(records, p) ==
    IF Len(records) = 0 THEN 0
    ELSE Requested(records[1].items, p) + Sold(Tail(records), p)

RECURSIVE LineItems(_)
\* the line items of the sale records in recording order, each with its sale
LineItems(records) ==
    IF Len(records) = 0 THEN << >>
    ELSE [i \in 1..Len(records[1].items) |->
             [sale |-> records[1], item |-> records[1].items[i]]]
         \o LineItems(Tail(records))

\* C6: no lock keeps two handlers that have both passed the availability
\* check from decrementing: whenever two handlers are in the decrement loop,
\* each can take its next decrement, and that step lowers the stock by the
\* quantity asked whatever the stock has become (also below zero).
C6_NoLockOnDecrement ==
    \A r1, r2 \in Slots :
        (r1 # r2 /\ pc[r1] = "decrement" /\ pc[r2] = "decrement")
            => \A r \in {r1, r2} :
                  ENABLED (/\ Decrement(r)
                           /\ prods'[Cur(r).productId].quantity =
                                  prods[Cur(r).productId].quantity - Cur(r).quantity)

\* both requests, one line item each for the same product and each within the
\* stock the product was created with, were answered 200 and the stock is
\* below zero
C6_Witness ==
    \E p \in DOMAIN prods :
        /\ overlapped
        /\ \A r \in Slots :
              /\ pc[r] = "done" /\ res[r].status = 200
              /\ Len(body[r].items) = 1
              /\ body[r].items[1].productId = p
              /\ body[r].items[1].quantity <= createdWith[p]
        /\ prods[p].quantity < 0

\* C8: with sale requests processed one at a time, whenever none is in
\* progress the spreadsheet file exists (and the download answers 200 rather
\* than 404) exactly when a sale has been recorded, and it then holds the
\* header row followed by one row per line item of every recorded sale, in
\* recording order.
C8_ArtifactTracksSales ==
    (Quiet /\ ~overlapped) =>
        LET lines == LineItems(sales) IN
        /\ file.exists <=> Len(sales) > 0
        /\ (DownloadStatus = 404) <=> Len(sales) = 0
        /\ file.exists =>
              /\ Len(file.rows) = 1 + Len(lines)
              /\ file.rows[1] = Header
              /\ \A i \in 1..Len(lines) :
                    /\ file.rows[i + 1].kind = "row"
                    /\ file.rows[i + 1].channel = lines[i].sale.channel
                    /\ file.rows[i + 1].date = FormatDate(lines[i].sale.date)
                    /\ file.rows[i + 1].product = prods[lines[i].item.productId].name
                    /\ file.rows[i + 1].quantity = lines[i].item.quantity

C8_Witness ==
    /\ Quiet /\ ~overlapped
    /\ Len(sales) = 2
    /\ Len(sales[1].items) = 2
    /\ sales[1].channel # sales[2].channel
    /\ Len(file.rows) = 1 + Len(LineItems(sales))

\* two interleaved recordings, both saved, the rows of one missing from the file
C8_RowsLost ==
    /\ Quiet /\ overlapped
    /\ Len(sales) = 2
    /\ \A r \in Slots : res[r].status = 200
    /\ Len(file.rows) < 1 + Len(LineItems(sales))

\* C10: in any interleaving of sale requests without failures and without
\* product updates or deletes, whenever no recording is in progress every
\* product's created quantity equals its current quantity plus the quantities
\* of the line items naming it over all sale records.
C10_StockConservation ==
    Quiet =>
        /\ DOMAIN createdWith = DOMAIN prods
        /\ \A p \in DOMAIN prods :
              createdWith[p] = prods[p].quantity + Sold(sales, p)

C10_Witness ==
    /\ Quiet /\ overlapped
    /\ Len(sales) = 2
    /\ \E p \in DOMAIN prods :
          /\ Requested(sales[1].items, p) > 0
          /\ Requested(sales[2].items, p) > 0
          /\ createdWith[p] = prods[p].quantity + Sold(sales, p)
          /\ prods[p].quantity < 0

=============================================================================
